---- MODULE Spec2Model ----
(***************************************************************************)
(* Level playback of the WALMA client: LevelPage (route -> level fetch ->  *)
(* page dispatch), QuestionLevelPage and ReviewLevelPage (step index,      *)
(* answer checking, completion) and the completion write to the user       *)
(* document.  The repository holds several versions of the two pages; the  *)
(* version built into the application is a choice made in Init.            *)
(***************************************************************************)
EXTENDS Integers, Sequences, FiniteSets, TLC

\* ------------------------------------------------------------------ bounds
MaxUnits == 2        \* number of units of the longest level of the catalogue
MaxPending == 2      \* cap on persistence calls in flight at once
MaxReports == 2      \* cap on completion writes started by one page instance
MaxPieces == 5       \* longest content string, in pieces of its vocabulary
MaxMarks == 2        \* cap on markLevelComplete calls in flight at once
MaxStored == 2       \* cap on the length of completedLevels
MaxMounts == 2       \* cap on the mounts of a FloatingButton
MaxLate == 2         \* cap on the count of setFloating calls after unmount

\* ------------------------------------------------------------ level source
Null == "null"

\* Documents under Weeks/<weekId>/Levels: two question levels, one review level.
LevelIds == {"q1", "q2", "r1"}

\* Documents the loader accepts as well (setSelectedLevel(levelSnap.data())
\* takes any document): a question whose correctAnswer is none of its options,
\* a question level with an informational unit (options: []), a review level
\* with a unit that carries options.
OddLevelIds == {"qBad", "qMix", "rMix"}

LevelType(l) == IF l \in {"r1", "rMix"} THEN "review" ELSE "question"

\* levelData.questions.length / levelData.slides.length
NumUnits(l) == IF l \in {"q2", "qBad"} THEN 1 ELSE MaxUnits

\* The options field of unit i (currentQuestion.options), empty when the
\* unit has none.
OptionsOf(l, i) ==
    CASE l = "r1" -> {}
      [] l = "qMix" -> IF i = 0 THEN {"a", "b"} ELSE {}
      [] l = "rMix" -> IF i = 0 THEN {"a", "b"} ELSE {}
      [] OTHER -> {"a", "b"}

\* currentQuestion.correctAnswer
CorrectAnswer(l, i) ==
    CASE l = "qBad" -> "B"
      [] l = "q2" -> "b"
      [] OTHER -> IF i % 2 = 0 THEN "a" ELSE "b"

AllOptions == {"a", "b"}

\* Versions of the pages found in the repository.
QuestionImpls == {"effect", "await"}
ReviewImpls == {"effect", "plain"}

VARIABLES
    qImpl, rImpl,            \* page versions built into the application
    user,                    \* auth.currentUser is set
    lpMounted,               \* LevelPage is mounted (route /level/:weekId/:levelId)
    route,                   \* useParams().levelId
    selectedLevel,           \* LevelPage state: level whose data was fetched, or Null
    fetches,                 \* getDoc(levelRef) calls in flight, by level id
    crashed,                 \* the last render threw and React unmounted the tree
    currentStepIndex, selectedAnswer, isAnswerChecked, showFeedback,
    showExplanation, isLevelComplete, showSettingsPopup, showQuitPopup,
    pending,                 \* persistence calls in flight
    shown,                   \* history: unit indices displayed since the page mounted
    checkedUnits,            \* history: indices on which Check ran since the page mounted
    continues,               \* history: Continue presses since the page mounted
    reports,                 \* history: completion writes started since the page mounted
    failures,                \* history: completion writes of this page that were rejected
    finishPressed,           \* history: Continue was pressed on the last unit
    propsChanged,            \* history: levelData or levelId changed since the page mounted
    deadPress,               \* history: the last step pressed a check button with no handler
    field,                   \* content rendering: the level-data field a string comes from
    raw,                     \* content rendering: the string, as a sequence of characters
    fn,                      \* content rendering: the function applied to it, or Null
    out,                     \* content rendering: what the function returned
    userDoc,                 \* Users/<uid>: Null while missing, else its completedLevels
    listeners,               \* position of each onAuthStateChanged callback
    marks,                   \* markLevelComplete calls in flight against Users/<uid>
    fbMounted,               \* a FloatingButton is mounted
    fbInstance,              \* which instance it is (count of mounts so far)
    fbTimers,                \* timers scheduled by mount effects, by owning instance
    floating,                \* the floating state of the mounted instance
    lateCalls                \* history: setFloating calls made for an unmounted instance

lpVars == <<lpMounted, route, selectedLevel, fetches, crashed>>
playVars == <<currentStepIndex, selectedAnswer, isAnswerChecked, showFeedback,
              showExplanation, isLevelComplete>>
popupVars == <<showSettingsPopup, showQuitPopup>>
histVars == <<shown, checkedUnits, continues, reports, failures, finishPressed,
              propsChanged>>
buildVars == <<qImpl, rImpl>>
textVars == <<field, raw, fn, out>>
storeVars == <<userDoc, listeners, marks>>
timerVars == <<fbMounted, fbInstance, fbTimers, floating, lateCalls>>
vars == <<buildVars, user, lpVars, playVars, popupVars, pending, histVars,
         deadPress, textVars, storeVars, timerVars>>

\* ------------------------------------------------------------ LevelPage view
\* LevelPage renders a page only once selectedLevel is set.
ChildMounted == lpMounted /\ selectedLevel # Null

\* selectedLevel.type === "review" ? ReviewLevelPage : QuestionLevelPage
ChildType == IF ~ChildMounted THEN "none" ELSE LevelType(selectedLevel)

ImplOf(type) == IF type = "review" THEN rImpl ELSE qImpl

ChildImpl == ImplOf(ChildType)

\* The versions with the settings button and the two popups.
HasPopups == ChildMounted /\ ~(ChildType = "review" /\ rImpl = "plain")

\* --------------------------------------------------------- pure page logic
\* Variant: the selection is compared with the first option, not correctAnswer.
IsCorrect_FirstOption(sel, correct) == sel = "a"

\* const isCorrect = selectedAnswer === currentQuestion.correctAnswer
IsCorrect(sel, correct) == sel = correct

\* setShowFeedback({ text, isCorrect })
Feedback(isCorrect, correct) ==
    [text |-> IF isCorrect THEN <<"Correct!">>
              ELSE <<"Incorrect. The answer is: ", correct>>,
     isCorrect |-> isCorrect]

\* if (!isCorrect) setShowExplanation(true)
ExplanationAfterCheck(isCorrect, prev) == IF ~isCorrect THEN TRUE ELSE prev

\* if (currentStepIndex < levelData.questions.length - 1)
HasNext(i, n) == i < n - 1

\* Variant: the index is advanced by two.
NextIndex_Skip(i) == i + 2

\* setCurrentStepIndex((prev) => prev + 1)
NextIndex(i) == i + 1

\* Variant: the effect lacks `if (!isLevelComplete) return`.
EffectWrites_NoGuard(impl, complete, usr) == impl = "effect" /\ usr

\* markLevelComplete / markComplete in the effect versions: the write is
\* started when isLevelComplete is set and a user is signed in.
EffectWrites(impl, complete, usr) == impl = "effect" /\ complete /\ usr

\* The persistence call started by the effect.
UpdateOp(l) == [op |-> "update", level |-> l, live |-> TRUE]

\* getDoc(userRef) of the read-append-write markLevelComplete.
GetOp(l) == [op |-> "get", level |-> l, live |-> TRUE]

\* setDoc(userRef, { completedLevels }, { merge: true }) of the same function.
SetOp(l, lv) == [op |-> "set", level |-> l, live |-> lv]

\* Calls whose issuing page instance is gone keep running but reach no state.
Orphan(ops) == [i \in DOMAIN ops |-> [ops[i] EXCEPT !.live = FALSE]]

RemoveAt(s, i) == SubSeq(s, 1, i - 1) \o SubSeq(s, i + 1, Len(s))

\* The calls in flight are unordered (any of them may settle next); the
\* sequence is kept sorted by OpRank so that one collection has one value.
OpRank(o) ==
    (CASE o.op = "get" -> 0 [] o.op = "set" -> 1 [] OTHER -> 2) * 16
    + (CASE o.level = "q1" -> 0 [] o.level = "q2" -> 1 [] o.level = "r1" -> 2
         [] o.level = "qBad" -> 3 [] o.level = "qMix" -> 4 [] OTHER -> 5) * 2
    + (IF o.live THEN 1 ELSE 0)

Issue(ops, o) ==
    LET k == Cardinality({i \in DOMAIN ops : OpRank(ops[i]) <= OpRank(o)})
    IN  SubSeq(ops, 1, k) \o <<o>> \o SubSeq(ops, k + 1, Len(ops))

LivePending == {i \in DOMAIN pending : pending[i].live}

\* currentQuestion.questionParts / currentSlide.title is read only on the
\* playing branch of the render; with the index past the end it throws.
RenderThrows(i, n, complete) == ~complete /\ i >= n

\* ------------------------------------------------------------------- Init
TypeOK ==
    /\ qImpl \in QuestionImpls /\ rImpl \in ReviewImpls
    /\ user \in BOOLEAN /\ lpMounted \in BOOLEAN /\ crashed \in BOOLEAN
    /\ route \in LevelIds \cup OddLevelIds \cup {Null}
    /\ selectedLevel \in LevelIds \cup OddLevelIds \cup {Null}
    /\ fetches \subseteq LevelIds \cup OddLevelIds
    /\ currentStepIndex \in 0..MaxUnits
    /\ selectedAnswer \in AllOptions \cup {Null}
    /\ isAnswerChecked \in BOOLEAN /\ showExplanation \in BOOLEAN
    /\ isLevelComplete \in BOOLEAN
    /\ showSettingsPopup \in BOOLEAN /\ showQuitPopup \in BOOLEAN
    /\ Len(pending) <= MaxPending + 1
    /\ Len(marks) <= MaxMarks
    /\ userDoc = Null \/ Len(userDoc) <= MaxStored + Cardinality(LevelIds)
    /\ fbMounted \in BOOLEAN
    /\ fbInstance \in 0..MaxMounts
    /\ lateCalls \in 0..MaxLate
    /\ deadPress \in BOOLEAN

\* useState initial values of the pages, and the histories of a fresh page.
FreshPlay ==
    /\ currentStepIndex' = 0
    /\ selectedAnswer' = Null
    /\ isAnswerChecked' = FALSE
    /\ showFeedback' = Null
    /\ showExplanation' = FALSE
    /\ isLevelComplete' = FALSE
    /\ showSettingsPopup' = FALSE
    /\ showQuitPopup' = FALSE
    /\ checkedUnits' = {}
    /\ continues' = 0
    /\ failures' = 0
    /\ finishPressed' = FALSE
    /\ propsChanged' = FALSE

\* Nothing is mounted, nobody has pressed anything.
LevelPageInit ==
    /\ user = TRUE
    /\ lpMounted = FALSE
    /\ route = Null
    /\ selectedLevel = Null
    /\ fetches = {}
    /\ crashed = FALSE
    /\ currentStepIndex = 0
    /\ selectedAnswer = Null
    /\ isAnswerChecked = FALSE
    /\ showFeedback = Null
    /\ showExplanation = FALSE
    /\ isLevelComplete = FALSE
    /\ showSettingsPopup = FALSE
    /\ showQuitPopup = FALSE
    /\ pending = <<>>
    /\ shown = <<>>
    /\ checkedUnits = {}
    /\ continues = 0
    /\ reports = 0
    /\ failures = 0
    /\ finishPressed = FALSE
    /\ propsChanged = FALSE
    /\ deadPress = FALSE

\* The two places that register onAuthStateChanged with the bootstrap.
Listeners == {"firebaseConfig", "HomePage"}

\* No user document yet, no callback running, no write in flight.
StoreInit ==
    /\ userDoc = Null
    /\ listeners = [k \in Listeners |-> "idle"]
    /\ marks = <<>>

\* useState({ x: 0, y: 0 })
FloatingInit == [x |-> 0, y |-> 0]

\* No FloatingButton mounted yet.
TimerInit ==
    /\ fbMounted = FALSE
    /\ fbInstance = 0
    /\ fbTimers = {}
    /\ floating = FloatingInit
    /\ lateCalls = 0

Init ==
    /\ qImpl \in QuestionImpls
    /\ rImpl \in ReviewImpls
    /\ LevelPageInit
    /\ field = Null /\ raw = <<>> /\ fn = Null /\ out = Null
    /\ StoreInit
    /\ TimerInit

\* ------------------------------------------------------- mounting, leaving
\* Fields of a fresh page instance, and its mount effect (isLevelComplete is
\* false on mount, so markLevelComplete returns at once).
MountPage(l, ops) ==
    /\ FreshPlay
    /\ shown' = <<0>>
    /\ IF EffectWrites(ImplOf(LevelType(l)), FALSE, user)
       THEN pending' = Issue(ops, UpdateOp(route)) /\ reports' = 1
       ELSE pending' = ops /\ reports' = 0

\* LevelPage leaves the tree: its state, its page and the page's state go.
Unmount ==
    /\ lpMounted' = FALSE
    /\ route' = Null
    /\ selectedLevel' = Null
    /\ fetches' = {}
    /\ FreshPlay
    /\ reports' = 0
    /\ shown' = <<>>
    /\ pending' = Orphan(pending)

\* MapPage: navigate(`/level/${weekId}/${levelId}`) under ProtectedRoute;
\* LevelPage mounts and its effect starts the fetch.
OpenLevel(l) ==
    /\ ~lpMounted
    /\ user
    /\ lpMounted' = TRUE
    /\ route' = l
    /\ selectedLevel' = Null
    /\ fetches' = {l}
    /\ crashed' = FALSE
    /\ deadPress' = FALSE
    /\ UNCHANGED <<buildVars, textVars, storeVars, timerVars, user, playVars, popupVars, pending, histVars>>

\* The route parameters change while LevelPage stays mounted (history
\* traversal between two /level/ entries): the fetch effect re-runs, and the
\* page gets the new levelId at once, which re-runs its completion effect.
RouteChange(l) ==
    /\ lpMounted
    /\ l # route
    /\ route' = l
    /\ fetches' = fetches \cup {l}
    /\ IF ChildMounted
       THEN /\ propsChanged' = TRUE
            /\ IF EffectWrites(ChildImpl, isLevelComplete, user)
               THEN /\ Len(pending) < MaxPending /\ reports < MaxReports
                    /\ pending' = Issue(pending, UpdateOp(l))
                    /\ reports' = reports + 1
               ELSE UNCHANGED <<pending, reports>>
       ELSE UNCHANGED <<pending, reports, propsChanged>>
    /\ deadPress' = FALSE
    /\ UNCHANGED <<buildVars, textVars, storeVars, timerVars, user, lpMounted, selectedLevel, crashed, playVars,
                   popupVars, shown, checkedUnits, continues, failures,
                   finishPressed>>

\* getDoc(levelRef) resolves with an existing document: setSelectedLevel.
FetchResolve(l) ==
    /\ l \in fetches
    /\ deadPress' = FALSE
    /\ UNCHANGED <<buildVars, textVars, storeVars, timerVars, user>>
    /\ IF selectedLevel = Null
       THEN /\ selectedLevel' = l
            /\ fetches' = fetches \ {l}
            /\ MountPage(l, pending)
            /\ UNCHANGED <<lpMounted, route, crashed>>
       ELSE IF LevelType(l) # LevelType(selectedLevel)
       THEN /\ selectedLevel' = l
            /\ fetches' = fetches \ {l}
            /\ MountPage(l, Orphan(pending))
            /\ UNCHANGED <<lpMounted, route, crashed>>
       ELSE IF RenderThrows(currentStepIndex, NumUnits(l), isLevelComplete)
       THEN /\ Unmount
            /\ crashed' = TRUE
       ELSE /\ selectedLevel' = l
            /\ fetches' = fetches \ {l}
            /\ propsChanged' = (propsChanged \/ l # selectedLevel)
            /\ UNCHANGED <<lpMounted, route, crashed, playVars, popupVars,
                           pending, shown, checkedUnits, continues, reports,
                           failures, finishPressed>>

\* The document does not exist or getDoc rejects: logged, no state change.
FetchFail(l) ==
    /\ l \in fetches
    /\ fetches' = fetches \ {l}
    /\ deadPress' = FALSE
    /\ UNCHANGED <<buildVars, textVars, storeVars, timerVars, user, lpMounted, route, selectedLevel, crashed,
                   playVars, popupVars, pending, histVars>>

\* FINISH on the level-complete screen: navigate to the map.
Finish ==
    /\ ChildMounted
    /\ isLevelComplete
    /\ Unmount
    /\ deadPress' = FALSE
    /\ UNCHANGED <<buildVars, textVars, storeVars, timerVars, user, crashed>>

\* Navigating away by the browser (back, another link).
BrowserLeave ==
    /\ lpMounted
    /\ Unmount
    /\ deadPress' = FALSE
    /\ UNCHANGED <<buildVars, textVars, storeVars, timerVars, user, crashed>>

\* signOut: ProtectedRoute renders <Navigate to="/signup" />.
SignOut ==
    /\ user
    /\ user' = FALSE
    /\ IF lpMounted
       THEN Unmount
       ELSE UNCHANGED <<lpMounted, route, selectedLevel, fetches, playVars,
                        popupVars, pending, histVars>>
    /\ deadPress' = FALSE
    /\ UNCHANGED <<buildVars, textVars, storeVars, timerVars, crashed>>

SignIn ==
    /\ ~user
    /\ user' = TRUE
    /\ deadPress' = FALSE
    /\ UNCHANGED <<buildVars, textVars, storeVars, timerVars, lpVars, playVars, popupVars, pending, histVars>>

\* ------------------------------------------------------------ page actions
\* Variant: the render has no level-complete branch.
Playing_NoCompleteBranch == ChildMounted

\* The playing branch of the render is on screen.
Playing == ChildMounted /\ ~isLevelComplete

\* onClick={selectedAnswer ? (...) : undefined}: a null selection is falsy.
Truthy(sel) == sel # Null

\* Variant: the check button carries its handler whatever the selection.
CheckButtonFires_Always(btn, sel) == TRUE

\* The two check buttons of the question pages:
\*   "handler":  onClick={selectedAnswer ? (...) : undefined}
\*   "disabled": onClick={...} disabled={!selectedAnswer}
CheckButtonFires(btn, sel) ==
    IF btn = "handler" THEN Truthy(sel) ELSE ~(~Truthy(sel))

CheckButtons == {"handler", "disabled"}

\* Variant: the option buttons are not disabled once the answer is checked.
SelectOption_NotDisabled(o) ==
    /\ ChildMounted /\ ~isLevelComplete
    /\ ChildType = "question"
    /\ o \in OptionsOf(selectedLevel, currentStepIndex)
    /\ selectedAnswer' = o
    /\ deadPress' = FALSE
    /\ UNCHANGED <<buildVars, textVars, storeVars, timerVars, user, lpVars, currentStepIndex, isAnswerChecked,
                   showFeedback, showExplanation, isLevelComplete, popupVars,
                   pending, histVars>>

\* Option button: onClick={() => setSelectedAnswer(option)}, disabled={isAnswerChecked}
SelectOption(o) ==
    /\ Playing
    /\ ChildType = "question"
    /\ ~isAnswerChecked
    /\ o \in OptionsOf(selectedLevel, currentStepIndex)
    /\ selectedAnswer' = o
    /\ deadPress' = FALSE
    /\ UNCHANGED <<buildVars, textVars, storeVars, timerVars, user, lpVars, currentStepIndex, isAnswerChecked,
                   showFeedback, showExplanation, isLevelComplete, popupVars,
                   pending, histVars>>

\* Variant: the check button is in continue mode from the start.
ContinueMode_Always(checked) == TRUE

\* isAnswerChecked ? handleContinue : handleCheckAnswer
ContinueMode(checked) == checked

\* Check button while unchecked: handleCheckAnswer.
handleCheckAnswer ==
    /\ Playing
    /\ ChildType = "question"
    /\ \E btn \in CheckButtons : CheckButtonFires(btn, selectedAnswer)
    /\ ~ContinueMode(isAnswerChecked)
    /\ LET correct == CorrectAnswer(selectedLevel, currentStepIndex)
           isCorrect == IsCorrect(selectedAnswer, correct)
       IN  /\ isAnswerChecked' = TRUE
           /\ showFeedback' = Feedback(isCorrect, correct)
           /\ showExplanation' = ExplanationAfterCheck(isCorrect, showExplanation)
    /\ checkedUnits' = checkedUnits \cup {currentStepIndex}
    /\ deadPress' = FALSE
    /\ UNCHANGED <<buildVars, textVars, storeVars, timerVars, user, lpVars, currentStepIndex, selectedAnswer,
                   isLevelComplete, popupVars, pending, shown, continues,
                   reports, failures, finishPressed, propsChanged>>

\* Variant: the WHY? button is rendered from the start.
WhyButtonShown_Always(checked, feedback) == TRUE

\* {isAnswerChecked && showFeedback.isCorrect && (<button className="why-button" ...>)}
WhyButtonShown(checked, feedback) == checked /\ feedback.isCorrect

\* Variant: the WHY? button is rendered after every checked answer.
ToggleExplanation_AfterAnyAnswer ==
    /\ Playing
    /\ ChildType = "question"
    /\ isAnswerChecked
    /\ showExplanation' = ~showExplanation
    /\ deadPress' = FALSE
    /\ UNCHANGED <<buildVars, textVars, storeVars, timerVars, user, lpVars, currentStepIndex, selectedAnswer,
                   isAnswerChecked, showFeedback, isLevelComplete, popupVars,
                   pending, histVars>>

\* WHY? button: onClick={() => setShowExplanation((prev) => !prev)}
ToggleExplanation ==
    /\ Playing
    /\ ChildType = "question"
    /\ WhyButtonShown(isAnswerChecked, showFeedback)
    /\ showExplanation' = ~showExplanation
    /\ deadPress' = FALSE
    /\ UNCHANGED <<buildVars, textVars, storeVars, timerVars, user, lpVars, currentStepIndex, selectedAnswer,
                   isAnswerChecked, showFeedback, isLevelComplete, popupVars,
                   pending, histVars>>

\* The else branch of handleContinue, by page version.
\*   effect: setIsLevelComplete(true); the effect then runs markLevelComplete.
\*   plain:  setIsLevelComplete(true); there is no effect.
\*   await:  await markLevelComplete() (getDoc first), setIsLevelComplete after.
CompleteLevel(impl) ==
    /\ finishPressed' = TRUE
    /\ IF impl = "await"
       THEN IF user
            THEN /\ Len(pending) < MaxPending /\ reports < MaxReports
                 /\ pending' = Issue(pending, GetOp(route))
                 /\ reports' = reports + 1
                 /\ UNCHANGED isLevelComplete
            ELSE /\ isLevelComplete' = TRUE
                 /\ UNCHANGED <<pending, reports>>
       ELSE /\ isLevelComplete' = TRUE
            /\ IF EffectWrites(impl, TRUE, user)
               THEN /\ Len(pending) < MaxPending /\ reports < MaxReports
                    /\ pending' = Issue(pending, UpdateOp(route))
                    /\ reports' = reports + 1
               ELSE UNCHANGED <<pending, reports>>

\* Variant: Continue moves on without clearing the selection.
handleContinue_KeepsSelection ==
    /\ Playing
    /\ ChildType = "question"
    /\ \E btn \in CheckButtons : CheckButtonFires(btn, selectedAnswer)
    /\ isAnswerChecked
    /\ continues' = continues + 1
    /\ IF HasNext(currentStepIndex, NumUnits(selectedLevel))
       THEN /\ currentStepIndex' = NextIndex(currentStepIndex)
            /\ isAnswerChecked' = FALSE
            /\ selectedAnswer' = selectedAnswer
            /\ showFeedback' = Null
            /\ showExplanation' = FALSE
            /\ shown' = Append(shown, NextIndex(currentStepIndex))
            /\ UNCHANGED <<isLevelComplete, pending, reports, finishPressed>>
       ELSE /\ CompleteLevel(qImpl)
            /\ UNCHANGED <<currentStepIndex, isAnswerChecked, selectedAnswer,
                           showFeedback, showExplanation, shown>>
    /\ deadPress' = FALSE
    /\ UNCHANGED <<buildVars, textVars, storeVars, timerVars, user, lpVars, popupVars, checkedUnits, failures,
                   propsChanged>>

\* Check button in continue mode: QuestionLevelPage.handleContinue.
handleContinue ==
    /\ Playing
    /\ ChildType = "question"
    /\ \E btn \in CheckButtons : CheckButtonFires(btn, selectedAnswer)
    /\ ContinueMode(isAnswerChecked)
    /\ continues' = continues + 1
    /\ IF HasNext(currentStepIndex, NumUnits(selectedLevel))
       THEN /\ currentStepIndex' = NextIndex(currentStepIndex)
            /\ isAnswerChecked' = FALSE
            /\ selectedAnswer' = Null
            /\ showFeedback' = Null
            /\ showExplanation' = FALSE
            /\ shown' = Append(shown, NextIndex(currentStepIndex))
            /\ UNCHANGED <<isLevelComplete, pending, reports, finishPressed>>
       ELSE /\ CompleteLevel(qImpl)
            /\ UNCHANGED <<currentStepIndex, isAnswerChecked, selectedAnswer,
                           showFeedback, showExplanation, shown>>
    /\ deadPress' = FALSE
    /\ UNCHANGED <<buildVars, textVars, storeVars, timerVars, user, lpVars, popupVars, checkedUnits, failures,
                   propsChanged>>

\* A press on the check button that reaches no handler: nothing is set.
PressCheckDead(btn) ==
    /\ Playing
    /\ ChildType = "question"
    /\ ~CheckButtonFires(btn, selectedAnswer)
    /\ deadPress' = TRUE
    /\ UNCHANGED <<buildVars, textVars, storeVars, timerVars, user, lpVars, playVars, popupVars, pending,
                   histVars>>

\* Continue button of ReviewLevelPage: handleContinue.
reviewHandleContinue ==
    /\ Playing
    /\ ChildType = "review"
    /\ continues' = continues + 1
    /\ IF HasNext(currentStepIndex, NumUnits(selectedLevel))
       THEN /\ currentStepIndex' = NextIndex(currentStepIndex)
            /\ shown' = Append(shown, NextIndex(currentStepIndex))
            /\ UNCHANGED <<isLevelComplete, pending, reports, finishPressed>>
       ELSE /\ CompleteLevel(rImpl)
            /\ UNCHANGED <<currentStepIndex, shown>>
    /\ deadPress' = FALSE
    /\ UNCHANGED <<buildVars, textVars, storeVars, timerVars, user, lpVars, selectedAnswer, isAnswerChecked,
                   showFeedback, showExplanation, popupVars, checkedUnits,
                   failures, propsChanged>>

\* Settings button: covered by the backdrop while a popup is open.
OpenSettings ==
    /\ HasPopups
    /\ ~showSettingsPopup /\ ~showQuitPopup
    /\ showSettingsPopup' = TRUE
    /\ deadPress' = FALSE
    /\ UNCHANGED <<buildVars, textVars, storeVars, timerVars, user, lpVars, playVars, showQuitPopup, pending,
                   histVars>>

\* Done button of the settings popup.
CloseSettings ==
    /\ HasPopups
    /\ showSettingsPopup
    /\ showSettingsPopup' = FALSE
    /\ deadPress' = FALSE
    /\ UNCHANGED <<buildVars, textVars, storeVars, timerVars, user, lpVars, playVars, showQuitPopup, pending,
                   histVars>>

\* End Session: leaves at once on the first unit, asks for confirmation later.
EndSession ==
    /\ HasPopups
    /\ showSettingsPopup
    /\ IF currentStepIndex = 0
       THEN /\ Unmount
            /\ UNCHANGED crashed
       ELSE /\ showSettingsPopup' = FALSE
            /\ showQuitPopup' = TRUE
            /\ UNCHANGED <<lpVars, playVars, pending, histVars>>
    /\ deadPress' = FALSE
    /\ UNCHANGED <<buildVars, textVars, storeVars, timerVars, user>>

\* Keep Learning button of the quit popup.
KeepLearning ==
    /\ HasPopups
    /\ showQuitPopup
    /\ showQuitPopup' = FALSE
    /\ deadPress' = FALSE
    /\ UNCHANGED <<buildVars, textVars, storeVars, timerVars, user, lpVars, playVars, showSettingsPopup,
                   pending, histVars>>

\* Quit button of the quit popup: navigate to the map.
Quit ==
    /\ HasPopups
    /\ showQuitPopup
    /\ Unmount
    /\ deadPress' = FALSE
    /\ UNCHANGED <<buildVars, textVars, storeVars, timerVars, user, crashed>>

\* ---------------------------------------------------- persistence results
\* After `await markLevelComplete()` returns, handleContinue goes on to
\* setIsLevelComplete(true); a page instance that is gone ignores it.
AwaitDone(live) == isLevelComplete' = (isLevelComplete \/ live)

\* A rejected call is caught and logged; counted for the page that issued it.
Logged(live) == failures' = IF live THEN failures + 1 ELSE failures

\* Variant: a rejected updateDoc is issued again from the catch block.
ResolveUpdate_Retry(i, ok) ==
    /\ i \in DOMAIN pending
    /\ pending[i].op = "update"
    /\ IF ok
       THEN pending' = RemoveAt(pending, i) /\ UNCHANGED failures
       ELSE pending' = pending /\ Logged(pending[i].live)
    /\ deadPress' = FALSE
    /\ UNCHANGED <<buildVars, textVars, storeVars, timerVars, user, lpVars, playVars, popupVars, shown,
                   checkedUnits, continues, reports, finishPressed,
                   propsChanged>>

\* updateDoc(userRef, { completedLevels: arrayUnion(levelId) }) settles.
ResolveUpdate(i, ok) ==
    /\ i \in DOMAIN pending
    /\ pending[i].op = "update"
    /\ pending' = RemoveAt(pending, i)
    /\ IF ok THEN UNCHANGED failures ELSE Logged(pending[i].live)
    /\ deadPress' = FALSE
    /\ UNCHANGED <<buildVars, textVars, storeVars, timerVars, user, lpVars, playVars, popupVars, shown,
                   checkedUnits, continues, reports, finishPressed,
                   propsChanged>>

\* getDoc(userRef) of markLevelComplete settles: the document exists (setDoc
\* follows), is missing (nothing to do), or the call rejects (caught).
ResolveGet(i, outcome) ==
    /\ i \in DOMAIN pending
    /\ pending[i].op = "get"
    /\ IF outcome = "exists"
       THEN /\ pending' = Issue(RemoveAt(pending, i), SetOp(pending[i].level, pending[i].live))
            /\ UNCHANGED <<isLevelComplete, failures>>
       ELSE /\ pending' = RemoveAt(pending, i)
            /\ AwaitDone(pending[i].live)
            /\ IF outcome = "error" THEN Logged(pending[i].live)
               ELSE UNCHANGED failures
    /\ deadPress' = FALSE
    /\ UNCHANGED <<buildVars, textVars, storeVars, timerVars, user, lpVars, currentStepIndex, selectedAnswer,
                   isAnswerChecked, showFeedback, showExplanation, popupVars,
                   shown, checkedUnits, continues, reports, finishPressed,
                   propsChanged>>

\* setDoc(userRef, ..., { merge: true }) of markLevelComplete settles.
ResolveSet(i, ok) ==
    /\ i \in DOMAIN pending
    /\ pending[i].op = "set"
    /\ pending' = RemoveAt(pending, i)
    /\ AwaitDone(pending[i].live)
    /\ IF ok THEN UNCHANGED failures ELSE Logged(pending[i].live)
    /\ deadPress' = FALSE
    /\ UNCHANGED <<buildVars, textVars, storeVars, timerVars, user, lpVars, currentStepIndex, selectedAnswer,
                   isAnswerChecked, showFeedback, showExplanation, popupVars,
                   shown, checkedUnits, continues, reports, finishPressed,
                   propsChanged>>

GetOutcomes == {"exists", "missing", "error"}

\* ------------------------------------------------------ content rendering
\* Strings are sequences of characters.
BS == "\\"
NL == "\n"
SP == " "

Min(S) == CHOOSE x \in S : \A y \in S : x <= y

\* s has the word w at index i (1-based).
HasAt(s, i, w) ==
    /\ i >= 1
    /\ i + Len(w) - 1 <= Len(s)
    /\ SubSeq(s, i, i + Len(w) - 1) = w

\* String.prototype.includes
Includes(s, w) == \E i \in 1..Len(s) : HasAt(s, i, w)

\* String.prototype.trim: white space goes from both ends.
WhiteSpace == {SP, NL}

RECURSIVE TrimStart(_)
TrimStart(s) ==
    IF s # <<>> /\ Head(s) \in WhiteSpace THEN TrimStart(Tail(s)) ELSE s

RECURSIVE TrimEnd(_)
TrimEnd(s) ==
    IF s # <<>> /\ s[Len(s)] \in WhiteSpace
    THEN TrimEnd(SubSeq(s, 1, Len(s) - 1))
    ELSE s

Trim(s) == TrimEnd(TrimStart(s))

\* String.prototype.toLowerCase, on the letters of the inputs.
LowerOf(c) ==
    CASE c = "P" -> "p" [] c = "N" -> "n" [] c = "G" -> "g" [] c = "J" -> "j"
      [] OTHER -> c

ToLowerCase(s) == [i \in DOMAIN s |-> LowerOf(s[i])]

\* ---- MathText.jsx: parseMathSegments
\* /\\\((.+?)\\\)|\\\[(.+?)\\\]/g : the delimiters of the two alternatives.
Opener(kind) == IF kind = "inline" THEN <<BS, "(">> ELSE <<BS, "[">>
Closer(kind) == IF kind = "inline" THEN <<BS, ")">> ELSE <<BS, "]">>

\* Variant: "." matches every character (the s flag).
Dot_All(c) == TRUE

\* "." of a JavaScript pattern: any character but a line terminator.
Dot(c) == c # NL

\* Variant: the group is greedy, (.+) runs to the last closer.
MatchClose_Greedy(s, p, kind) ==
    IF ~HasAt(s, p, Opener(kind)) THEN 0
    ELSE LET qs == {q \in (p + 3)..(Len(s) - 1) :
                       /\ HasAt(s, q, Closer(kind))
                       /\ \A r \in (p + 2)..(q - 1) : Dot(s[r])}
         IN  IF qs = {} THEN 0 ELSE CHOOSE q \in qs : \A y \in qs : y <= q

\* One alternative of the pattern tried at index p: the index of the closer
\* that ends the match, 0 when it does not match there.  (.+?) takes one
\* character at least and as few as lets the closer follow.
MatchClose(s, p, kind) ==
    IF ~HasAt(s, p, Opener(kind)) THEN 0
    ELSE LET qs == {q \in (p + 3)..(Len(s) - 1) :
                       /\ HasAt(s, q, Closer(kind))
                       /\ \A r \in (p + 2)..(q - 1) : Dot(s[r])}
         IN  IF qs = {} THEN 0 ELSE Min(qs)

\* Which alternative matches at p: \(...\) is tried first.
KindAt(s, p) ==
    IF MatchClose(s, p, "inline") # 0 THEN "inline"
    ELSE IF MatchClose(s, p, "block") # 0 THEN "block"
    ELSE Null

\* pattern.exec(text) with pattern.lastIndex = last - 1: match.index + 1,
\* 0 for null.
Exec(s, last) ==
    LET ps == {p \in last..Len(s) : KindAt(s, p) # Null}
    IN  IF ps = {} THEN 0 ELSE Min(ps)

\* Variant: plain text is trimmed before it is pushed.
Text_Trimmed(s) == [type |-> "text", content |-> Trim(s)]

\* { type: "text", content: ... }
Text(s) == [type |-> "text", content |-> s]

\* Variant: the text before a match is never pushed.
Before_Never(s, last, p) == <<>>

\* Variant: the text before a match is pushed even when there is none.
Before_Always(s, last, p) == <<Text(SubSeq(s, last, p - 1))>>

\* if (match.index > lastIndex) result.push({type: "text", ...})
Before(s, last, p) ==
    IF p > last THEN <<Text(SubSeq(s, last, p - 1))>> ELSE <<>>

\* Variant: the text after the last match is forgotten.
Remaining_Dropped(s, last) == <<>>

\* if (lastIndex < text.length) result.push({type: "text", ...})
Remaining(s, last) ==
    IF last <= Len(s) THEN <<Text(SubSeq(s, last, Len(s)))>> ELSE <<>>

\* The while loop, from pattern.lastIndex = last - 1 on.
RECURSIVE ParseFrom(_, _)
ParseFrom(s, last) ==
    LET p == Exec(s, last)
    IN  IF p = 0 THEN Remaining(s, last)
        ELSE LET kind == KindAt(s, p)
                 q == MatchClose(s, p, kind)
             IN  Before(s, last, p)
                   \o <<[type |-> kind, content |-> SubSeq(s, p + 2, q - 1)]>>
                   \o ParseFrom(s, q + 2)

parseMathSegments(text) == ParseFrom(text, 1)

\* MathText: one element per segment, the content as its child.
MathText(children) ==
    LET segments == parseMathSegments(children)
    IN  [i \in DOMAIN segments |->
            [el |-> CASE segments[i].type = "inline" -> "InlineMath"
                      [] segments[i].type = "block" -> "BlockMath"
                      [] OTHER -> "span",
             content |-> segments[i].content]]

\* ---- QuestionLevelPage: renderInlineMathText
\* text.split("\n")
RECURSIVE SplitLines(_)
SplitLines(s) ==
    LET is == {i \in 1..Len(s) : s[i] = NL}
    IN  IF is = {} THEN <<s>>
        ELSE <<SubSeq(s, 1, Min(is) - 1)>>
               \o SplitLines(SubSeq(s, Min(is) + 1, Len(s)))

\* /\{\{(.*?)\}\}/ tried at index p: index of the "}}" that ends the match,
\* 0 when it does not match there.
BraceClose(s, p) ==
    IF ~HasAt(s, p, <<"{", "{">>) THEN 0
    ELSE LET qs == {q \in (p + 2)..(Len(s) - 1) :
                       /\ HasAt(s, q, <<"}", "}">>)
                       /\ \A r \in (p + 2)..(q - 1) : Dot(s[r])}
         IN  IF qs = {} THEN 0 ELSE Min(qs)

\* line.split(/\{\{(.*?)\}\}/g): the pieces around the matches, each followed
\* by the match's group, so groups sit at the odd (0-based) indices.
RECURSIVE SplitBraces(_)
SplitBraces(s) ==
    LET ps == {p \in 1..Len(s) : BraceClose(s, p) # 0}
    IN  IF ps = {} THEN <<s>>
        ELSE LET p == Min(ps)
                 q == BraceClose(s, p)
             IN  <<SubSeq(s, 1, p - 1), SubSeq(s, p + 2, q - 1)>>
                   \o SplitBraces(SubSeq(s, q + 2, Len(s)))

\* Variant: the group goes to InlineMath as it stands.
MathProp_Raw(seg) == seg

\* math={seg.trim()}
MathProp(seg) == Trim(seg)

\* One line: i % 2 === 1 ? <InlineMath math={seg.trim()} /> : seg
RenderLine(line) ==
    LET segs == SplitBraces(line)
    IN  [i \in DOMAIN segs |->
            IF (i - 1) % 2 = 1
            THEN [el |-> "InlineMath", content |-> MathProp(segs[i])]
            ELSE [el |-> "text", content |-> segs[i]]]

\* The lines in order (each is followed by <br />), each a list of children.
renderInlineMathText(text) ==
    LET lines == SplitLines(text)
    IN  [l \in DOMAIN lines |-> RenderLine(lines[l])]

\* ---- QuestionLevelPage: renderParts, one element of partsArray
\* JavaScript values with their type, and ===.
Str(v) == [t |-> "string", v |-> v]
Bool(v) == [t |-> "boolean", v |-> v]
StrictEquals(x, y) == x.t = y.t /\ x.v = y.v

\* [a-zA-Z0-9 .,!?] on the characters of the inputs.
Letters == {"a", "p", "n", "g", "j", "e", "h", "t", "P", "N", "G", "J"}
PlainChars == Letters \cup {SP, ".", ",", "!", "?"}

\* part.trim().replace(/[a-zA-Z0-9 .,!?]/g, "")
StripPlain(s) == SelectSeq(s, LAMBDA c : c \notin PlainChars)

\* part.trim() === part.trim().replace(...).length > 2
\* (> binds tighter than ===: a string is compared with a boolean)
BlockTest(part) ==
    StrictEquals(Str(Trim(part)), Bool(Len(StripPlain(Trim(part))) > 2))

Png == <<".", "p", "n", "g">>
Jpg == <<".", "j", "p", "g">>
Jpeg == <<".", "j", "p", "e", "g">>

\* effect: /\.(png|jpg|jpeg)/i.test(part)
\* await:  part.toLowerCase().includes(".png") || part.toLowerCase().includes(".jpg")
ImageTest(impl, part) ==
    IF impl = "effect"
    THEN \E w \in {Png, Jpg, Jpeg} : Includes(ToLowerCase(part), w)
    ELSE Includes(ToLowerCase(part), Png) \/ Includes(ToLowerCase(part), Jpg)

\* src={`/${part.trim()}`}
ImgSrc(part) == <<"/">> \o Trim(part)

RenderPart(impl, part) ==
    IF BlockTest(part)
    THEN [el |-> "BlockMath", content |-> Trim(part)]
    ELSE IF ImageTest(impl, part)
    THEN [el |-> "img", src |-> ImgSrc(part)]
    ELSE [el |-> "p", children |-> renderInlineMathText(part)]

\* ---- ReviewLevelPage: resolveDiagramPath
Http == <<"h", "t", "t", "p">>
DiagramsBase == <<"/", "d", "i", "a", "g", "r", "a", "m", "s", "/">>

\* if (!path) return null; if (path.startsWith("http")) return path;
\* return `/diagrams/${path}`
resolveDiagramPath(path) ==
    IF path = <<>> THEN Null
    ELSE IF HasAt(path, 1, Http) THEN path
    ELSE DiagramsBase \o path

\* ---- the strings the pages render
\* Level-data fields: slide.content (MathText), an option of a question
\* (renderInlineMathText), an element of questionParts (renderParts),
\* slide.diagram (resolveDiagramPath).
Fields == {"content", "option", "part", "diagram"}

\* The words the strings of a field are made of.
Pieces(f) ==
    CASE f = "content" ->
           {<<BS, "(">>, <<BS, ")">>, <<BS, "[">>, <<BS, "]">>, <<"a">>, <<NL>>,
            <<BS, "(", "a", BS, ")">>}
      [] f = "option" -> {<<"{", "{">>, <<"}", "}">>, <<"a">>, <<SP>>, <<NL>>}
      [] f = "part" -> {<<"a">>, <<SP>>, <<"=">>, Png, <<".", "J", "P", "G">>, Jpeg, Http}
      [] f = "diagram" -> {<<"a">>, <<"/">>, Png, Http}

PiecesOf(f) ==
    CASE f = "content" -> MaxPieces
      [] f = "option" -> MaxPieces
      [] f = "part" -> MaxPieces - 1
      [] f = "diagram" -> MaxPieces - 2

RECURSIVE Flatten(_)
Flatten(ps) == IF ps = <<>> THEN <<>> ELSE Head(ps) \o Flatten(Tail(ps))

InputsOf(f) ==
    {Flatten(ps) : ps \in UNION {[1..k -> Pieces(f)] : k \in 0..PiecesOf(f)}}

\* A string of level data waits to be rendered.  The page version matters
\* only to the field that page renders.
InitText ==
    /\ qImpl \in QuestionImpls
    /\ rImpl \in ReviewImpls
    /\ LevelPageInit
    /\ field \in Fields
    /\ field # "part" => qImpl = "effect"
    /\ rImpl = "effect"
    /\ raw \in InputsOf(field)
    /\ fn = Null
    /\ out = Null
    /\ StoreInit
    /\ TimerInit

\* What an application of a rendering function leaves alone.
TextFrame ==
    UNCHANGED <<buildVars, user, lpVars, playVars, popupVars, pending,
                histVars, deadPress, field, raw, storeVars, timerVars>>

\* parseMathSegments(text), for any string.
CallParseMathSegments ==
    /\ fn = Null /\ field = "content"
    /\ fn' = "parseMathSegments"
    /\ out' = parseMathSegments(raw)
    /\ TextFrame

\* {slide.content && <p><MathText>{slide.content}</MathText></p>}
RenderSlideContent ==
    /\ fn = Null /\ field = "content"
    /\ raw # <<>>
    /\ fn' = "MathText"
    /\ out' = MathText(raw)
    /\ TextFrame

\* {renderInlineMathText(option)}
RenderOption ==
    /\ fn = Null /\ field = "option"
    /\ fn' = "renderInlineMathText"
    /\ out' = renderInlineMathText(raw)
    /\ TextFrame

\* renderParts(currentQuestion.questionParts), one part
RenderQuestionPart ==
    /\ fn = Null /\ field = "part"
    /\ fn' = "renderParts"
    /\ out' = RenderPart(qImpl, raw)
    /\ TextFrame

\* {currentSlide.diagram && <img src={resolveDiagramPath(currentSlide.diagram)} />}
RenderDiagram ==
    /\ fn = Null /\ field = "diagram"
    /\ raw # <<>>
    /\ fn' = "resolveDiagramPath"
    /\ out' = resolveDiagramPath(raw)
    /\ TextFrame

\* ------------------------------------------------------------ specification
\* A visit of LevelPage whose route parameters stay as they were on entry.
Next ==
    \/ \E l \in LevelIds : OpenLevel(l)
    \/ \E l \in LevelIds : FetchResolve(l)
    \/ \E l \in LevelIds : FetchFail(l)
    \/ Finish
    \/ BrowserLeave
    \/ SignOut
    \/ SignIn
    \/ \E o \in AllOptions : SelectOption(o)
    \/ handleCheckAnswer
    \/ ToggleExplanation
    \/ handleContinue
    \/ \E btn \in CheckButtons : PressCheckDead(btn)
    \/ reviewHandleContinue
    \/ OpenSettings
    \/ CloseSettings
    \/ EndSession
    \/ KeepLearning
    \/ Quit
    \/ \E i \in 1..(MaxPending + 1), ok \in BOOLEAN : ResolveUpdate(i, ok)
    \/ \E i \in 1..(MaxPending + 1), outcome \in GetOutcomes : ResolveGet(i, outcome)
    \/ \E i \in 1..(MaxPending + 1), ok \in BOOLEAN : ResolveSet(i, ok)

Spec == Init /\ [][Next]_vars

\* The same, with route changes under the mounted LevelPage.
NextRoute ==
    \/ Next
    \/ \E l \in LevelIds : RouteChange(l)

SpecRoute == Init /\ [][NextRoute]_vars

\* The rendering functions applied to the strings of level data.
NextText ==
    \/ CallParseMathSegments
    \/ RenderSlideContent
    \/ RenderOption
    \/ RenderQuestionPart
    \/ RenderDiagram

SpecText == InitText /\ [][NextText]_vars

\* ------------------------------------------------------ the user document
\* What the page and listener actions leave alone.
PageFrame ==
    UNCHANGED <<buildVars, user, lpVars, playVars, popupVars, pending,
                histVars, deadPress, textVars>>

Range(s) == {s[i] : i \in DOMAIN s}

\* arrayUnion(levelId): adds the element unless the array has it.
arrayUnion(arr, x) == IF x \in Range(arr) THEN arr ELSE Append(arr, x)

\* [...(userData.completedLevels || []), levelId]
AppendLevel(arr, x) == Append(arr, x)

\* The first call of markLevelComplete, by page version: updateDoc in the
\* effect versions, getDoc in the read-append-write version.
FirstCall(impl, l) ==
    IF impl = "await" THEN [op |-> "get", level |-> l, data |-> <<>>]
    ELSE [op |-> "update", level |-> l, data |-> <<>>]

\* onAuthStateChanged invokes listener k with a user: getDoc(userRef) starts.
AuthStateChanged(k) ==
    /\ listeners[k] \in {"idle", "done"}
    /\ listeners' = [listeners EXCEPT ![k] = "get"]
    /\ UNCHANGED <<userDoc, marks>>
    /\ PageFrame /\ UNCHANGED timerVars

\* await getDoc(userRef) of listener k settles: if (!userSnap.exists()) setDoc starts.
BootstrapGet(k) ==
    /\ listeners[k] = "get"
    /\ listeners' = [listeners EXCEPT ![k] = IF userDoc = Null THEN "set" ELSE "done"]
    /\ UNCHANGED <<userDoc, marks>>
    /\ PageFrame /\ UNCHANGED timerVars

\* await setDoc(userRef, { completedLevels: [] }) of listener k settles
\* (no merge option: the document is replaced).
BootstrapSet(k) ==
    /\ listeners[k] = "set"
    /\ userDoc' = <<>>
    /\ listeners' = [listeners EXCEPT ![k] = "done"]
    /\ UNCHANGED marks
    /\ PageFrame /\ UNCHANGED timerVars

\* A level is finished by a signed-in user: markLevelComplete starts (the
\* review page without persistence has none).
markLevelComplete(l) ==
    /\ Len(marks) < MaxMarks
    /\ EffectWrites(ImplOf(LevelType(l)), TRUE, TRUE) \/ ImplOf(LevelType(l)) = "await"
    /\ marks' = Append(marks, FirstCall(ImplOf(LevelType(l)), l))
    /\ UNCHANGED <<userDoc, listeners>>
    /\ PageFrame /\ UNCHANGED timerVars

\* updateDoc(userRef, { completedLevels: arrayUnion(levelId) }) settles: it
\* rejects when the document is missing.
MarkUpdate(i) ==
    /\ i \in DOMAIN marks
    /\ marks[i].op = "update"
    /\ userDoc' = IF userDoc = Null THEN Null ELSE arrayUnion(userDoc, marks[i].level)
    /\ marks' = RemoveAt(marks, i)
    /\ UNCHANGED listeners
    /\ PageFrame /\ UNCHANGED timerVars

\* getDoc(userRef) of markLevelComplete settles: if (userSnap.exists()) the
\* array read is extended and setDoc starts.
MarkGet(i) ==
    /\ i \in DOMAIN marks
    /\ marks[i].op = "get"
    /\ IF userDoc = Null
       THEN marks' = RemoveAt(marks, i)
       ELSE /\ Len(userDoc) < MaxStored
            /\ marks' = [marks EXCEPT ![i] =
                            [op |-> "set", level |-> marks[i].level,
                             data |-> AppendLevel(userDoc, marks[i].level)]]
    /\ UNCHANGED <<userDoc, listeners>>
    /\ PageFrame /\ UNCHANGED timerVars

\* setDoc(userRef, { completedLevels: updatedCompletedLevels }, { merge: true }) settles.
MarkSet(i) ==
    /\ i \in DOMAIN marks
    /\ marks[i].op = "set"
    /\ userDoc' = marks[i].data
    /\ marks' = RemoveAt(marks, i)
    /\ UNCHANGED listeners
    /\ PageFrame /\ UNCHANGED timerVars

\* The user document under the two bootstraps and the completion writes.
NextStore ==
    \/ \E k \in Listeners : AuthStateChanged(k)
    \/ \E k \in Listeners : BootstrapGet(k)
    \/ \E k \in Listeners : BootstrapSet(k)
    \/ \E l \in LevelIds : markLevelComplete(l)
    \/ \E i \in 1..MaxMarks : MarkUpdate(i)
    \/ \E i \in 1..MaxMarks : MarkGet(i)
    \/ \E i \in 1..MaxMarks : MarkSet(i)

SpecStore == Init /\ [][NextStore]_vars

\* --------------------------------------------------------- FloatingButton
\* Math.random() * 6 - 3, sampled.
Offsets == {-3, 0, 2}

\* What the mount effect returns to React as its cleanup: nothing (the
\* `return () => clearInterval(interval)` belongs to the setTimeout callback,
\* whose return value is discarded), so unmount leaves the timers as they are.
EffectCleanup(timers, instance) == timers

\* FloatingButton mounts: useState initial values, then the mount effect
\* calls setTimeout(..., delay).
MountFloatingButton ==
    /\ ~fbMounted
    /\ fbInstance < MaxMounts
    /\ fbMounted' = TRUE
    /\ fbInstance' = fbInstance + 1
    /\ floating' = FloatingInit
    /\ fbTimers' = fbTimers \cup {[kind |-> "timeout", owner |-> fbInstance + 1]}
    /\ UNCHANGED lateCalls
    /\ PageFrame /\ UNCHANGED storeVars

\* FloatingButton unmounts: React runs the cleanup the effect returned.
UnmountFloatingButton ==
    /\ fbMounted
    /\ fbMounted' = FALSE
    /\ fbTimers' = EffectCleanup(fbTimers, fbInstance)
    /\ UNCHANGED <<fbInstance, floating, lateCalls>>
    /\ PageFrame /\ UNCHANGED storeVars

\* The initial delay elapses: the callback calls setInterval(..., 5000).
TimeoutFires(t) ==
    /\ t \in fbTimers
    /\ t.kind = "timeout"
    /\ fbTimers' = (fbTimers \ {t}) \cup {[kind |-> "interval", owner |-> t.owner]}
    /\ UNCHANGED <<fbMounted, fbInstance, floating, lateCalls>>
    /\ PageFrame /\ UNCHANGED storeVars

\* The interval ticks: setFloating({ x, y }) of the instance that owns it.
IntervalTick(t, x, y) ==
    /\ t \in fbTimers
    /\ t.kind = "interval"
    /\ IF fbMounted /\ t.owner = fbInstance
       THEN /\ floating' = [x |-> x, y |-> y]
            /\ UNCHANGED lateCalls
       ELSE /\ lateCalls < MaxLate
            /\ lateCalls' = lateCalls + 1
            /\ UNCHANGED floating
    /\ UNCHANGED <<fbMounted, fbInstance, fbTimers>>
    /\ PageFrame /\ UNCHANGED storeVars

\* Timers of every instance mounted so far.
TimersOf == [kind : {"timeout", "interval"}, owner : 1..MaxMounts]

\* A FloatingButton over mounts and unmounts.
NextTimer ==
    \/ MountFloatingButton
    \/ UnmountFloatingButton
    \/ \E t \in TimersOf : TimeoutFires(t)
    \/ \E t \in TimersOf, x \in Offsets, y \in Offsets : IntervalTick(t, x, y)

SpecTimer == Init /\ [][NextTimer]_vars

\* A visit of LevelPage, the level being any document the loader accepts.
NextData ==
    \/ Next
    \/ \E l \in OddLevelIds : OpenLevel(l)
    \/ \E l \in OddLevelIds : FetchResolve(l)
    \/ \E l \in OddLevelIds : FetchFail(l)

SpecData == Init /\ [][NextData]_vars

\* ------------------------------------------------------------------ claims
\* <<0, 1, ..., n-1>>
Prefix(n) == [k \in 1..n |-> k - 1]

\* Number of units of the level supplied to the mounted page.
UnitsNow == NumUnits(selectedLevel)

\* The same page instance is mounted before and after the step.
SamePage == ChildMounted /\ ChildMounted' /\ ChildType' = ChildType

\* C1: in a session that has reached the level-complete state, the completion
\* write has been started exactly once, on question and review levels alike.
C1_ExactlyOneReport ==
    (ChildMounted /\ isLevelComplete /\ ~propsChanged) => reports = 1

\* C2: a session starts at unit 0; the units shown so far are 0, 1, ..., i in
\* that order with none repeated or skipped; k < n presses of Continue leave
\* the session on unit k, the n-th press is the one on the last unit and ends
\* the level, and in a question level every unit left behind was checked.
C2_SequencerMonotonic ==
    (ChildMounted /\ ~propsChanged) =>
        /\ shown = Prefix(currentStepIndex + 1)
        /\ currentStepIndex < UnitsNow
        /\ continues < UnitsNow =>
              currentStepIndex = continues /\ ~isLevelComplete /\ ~finishPressed
        /\ continues >= UnitsNow =>
              /\ currentStepIndex = UnitsNow - 1
              /\ finishPressed
              /\ isLevelComplete \/ (ChildImpl = "await" /\ LivePending # {})
        /\ continues > UnitsNow => ChildImpl = "await"
        /\ ChildType = "question" =>
              checkedUnits = {k \in 0..currentStepIndex :
                                 k < currentStepIndex \/ isAnswerChecked}

C2_Witness ==
    /\ ChildMounted /\ ChildType = "question" /\ isLevelComplete
    /\ UnitsNow = MaxUnits /\ continues = MaxUnits
    /\ shown = Prefix(MaxUnits)

\* C3: Check sets isCorrect to (selection = correctAnswer of the current
\* question); the explanation is hidden after a correct answer and visible
\* after any other option.
C3_AnswerCorrectness ==
    [][(SamePage /\ ~isAnswerChecked /\ isAnswerChecked') =>
          LET right == (selectedAnswer = CorrectAnswer(selectedLevel, currentStepIndex))
          IN  /\ selectedAnswer \in OptionsOf(selectedLevel, currentStepIndex)
              /\ showFeedback'.isCorrect = right
              /\ showExplanation' = ~right]_vars

C3_Witness ==
    /\ ChildMounted /\ currentStepIndex = 1 /\ isAnswerChecked
    /\ selectedAnswer = CorrectAnswer(selectedLevel, 1)
    /\ showFeedback.isCorrect /\ ~showExplanation /\ continues = 1

\* C4: while a completion report of the session is pending, no second one is
\* started.
C4_NoSecondReportWhilePending ==
    (ChildMounted /\ ~propsChanged) => Cardinality(LivePending) <= 1

\* C5: once Continue has been pressed on the last unit the session is in the
\* level-complete state, whether or not the persistence call has resolved.
C5_CompleteScreenDoesNotWait ==
    (ChildMounted /\ finishPressed) => isLevelComplete

\* C6: a completion write is started only by a session that has shown every
\* unit of its level, checked every question and had Continue pressed on the
\* last unit; nothing else (entering a level, leaving it early) starts one.
C6_NoPartialCompletionRecord ==
    [][(Len(pending') > Len(pending) /\ ~propsChanged') =>
          /\ ChildMounted'
          /\ finishPressed'
          /\ shown' = Prefix(NumUnits(selectedLevel'))
          /\ LevelType(selectedLevel') = "question" =>
                checkedUnits' = 0..(NumUnits(selectedLevel') - 1)]_vars

C6_Witness ==
    /\ ChildMounted /\ ChildType = "question" /\ UnitsNow = MaxUnits
    /\ reports = 1 /\ Len(pending) = 1
    /\ checkedUnits = 0..(MaxUnits - 1)

\* C7: when a completion report of the mounted page is rejected, the
\* level-complete screen is shown, index, selection, checked flag, feedback
\* and explanation are unchanged, and no further write is started.
C7_FailureKeepsCompleteScreen ==
    [][(SamePage /\ failures' = failures + 1) =>
          /\ isLevelComplete'
          /\ ChildImpl # "await" => isLevelComplete
          /\ UNCHANGED <<currentStepIndex, selectedAnswer, isAnswerChecked,
                         showFeedback, showExplanation>>
          /\ reports' = reports
          /\ Len(pending') = Len(pending) - 1]_vars

C7_Witness ==
    /\ ChildMounted /\ ChildImpl = "effect" /\ isLevelComplete
    /\ failures = 1 /\ reports = 1 /\ pending = <<>>

\* C8: once isLevelComplete is true, no step of the same page changes the
\* index, the selection, the checked flag, the feedback, the explanation
\* visibility or isLevelComplete.
C8_CompleteIsTerminal ==
    [][(SamePage /\ isLevelComplete) => UNCHANGED playVars]_vars

C8_Witness ==
    /\ ChildMounted /\ ChildType = "question" /\ isLevelComplete
    /\ showQuitPopup /\ pending = <<>>

\* C9: the index of a mounted page is within the units of the level
\* currently supplied to it.
C9_IndexInRange ==
    ChildMounted => (0 <= currentStepIndex /\ currentStepIndex < UnitsNow)

\* C10: the selection of a page changes only by selecting an option of the
\* current question while it is unchecked, which leaves index and checked flag
\* alone, or by Continue showing the next question, which clears it.
C10_SelectOnlyWhileUnchecked ==
    [][(SamePage /\ selectedAnswer' # selectedAnswer) =>
          \/ /\ ~isAnswerChecked /\ ~isLevelComplete
             /\ selectedAnswer' \in OptionsOf(selectedLevel, currentStepIndex)
             /\ currentStepIndex' = currentStepIndex
             /\ isAnswerChecked' = isAnswerChecked
          \/ /\ isAnswerChecked
             /\ selectedAnswer' = Null
             /\ currentStepIndex' = currentStepIndex + 1
             /\ ~isAnswerChecked']_vars

C10_Witness ==
    /\ ChildMounted /\ currentStepIndex = 1 /\ ~isAnswerChecked
    /\ selectedAnswer = "b" /\ checkedUnits = {0}

\* C11: a press on the check button while nothing is selected leaves the
\* index, the selection, the checked flag, the feedback, the explanation
\* visibility and the completion flag as they were, and no render throws.
C11_PressUnselectedIsNoOp ==
    [][(/\ selectedAnswer = Null
        /\ \/ handleCheckAnswer
           \/ handleContinue
           \/ \E btn \in CheckButtons : PressCheckDead(btn))
       => (UNCHANGED playVars /\ crashed' = crashed /\ failures' = failures)]_vars

C11_Witness ==
    /\ deadPress /\ ChildMounted /\ ChildType = "question"
    /\ selectedAnswer = Null /\ ~isAnswerChecked /\ currentStepIndex = 1

\* C12: Continue on a checked question that is not the last one moves to
\* index i+1 with the selection null, the checked flag false, the feedback
\* cleared and the explanation hidden; a question comes on screen by the
\* page mounting or by Continue, and either way it is unselected, unchecked
\* and its explanation is hidden.
C12_ContinueResets ==
    [][/\ (handleContinue /\ HasNext(currentStepIndex, UnitsNow)) =>
            /\ isAnswerChecked
            /\ currentStepIndex' = currentStepIndex + 1
            /\ selectedAnswer' = Null
            /\ ~isAnswerChecked'
            /\ showFeedback' = Null
            /\ ~showExplanation'
       /\ (ChildMounted' /\ ChildType' = "question" /\ shown' # shown) =>
            /\ selectedAnswer' = Null
            /\ ~isAnswerChecked'
            /\ ~showExplanation']_vars

C12_Witness ==
    /\ ChildMounted /\ ChildType = "question" /\ currentStepIndex = 1
    /\ continues = 1 /\ checkedUnits = {0} /\ selectedAnswer = Null
    /\ ~isAnswerChecked /\ ~showExplanation /\ ~deadPress

\* C13 as stated: on the playing screen of a question page the explanation
\* toggle is available exactly while the current answer is checked, after a
\* correct answer and after a wrong one alike.
C13_ToggleAfterAnyAnswer ==
    (Playing /\ ChildType = "question") =>
        (WhyButtonShown(isAnswerChecked, showFeedback) <=> isAnswerChecked)

\* C13 amended: the explanation toggle is available only after a correct
\* answer, while the level is not complete; it flips the explanation
\* visibility and changes nothing else; after a wrong answer the explanation
\* is visible and stays so until Continue.
C13_ToggleOnlyAfterCorrect ==
    [][/\ ToggleExplanation =>
            /\ isAnswerChecked /\ showFeedback.isCorrect /\ ~isLevelComplete
            /\ showExplanation' = ~showExplanation
            /\ UNCHANGED <<currentStepIndex, selectedAnswer, isAnswerChecked,
                           showFeedback, isLevelComplete, lpVars, pending>>
       /\ (SamePage /\ ChildType = "question" /\ isAnswerChecked
             /\ ~showFeedback.isCorrect /\ isAnswerChecked') =>
            (showExplanation /\ showExplanation')]_vars

C13_Witness ==
    /\ ChildMounted /\ ChildType = "question" /\ isAnswerChecked
    /\ showFeedback.isCorrect /\ showExplanation /\ ~isLevelComplete

\* The string a list of segments stands for: text as it is, math between
\* the delimiters of its type.
RECURSIVE Unparse(_)
Unparse(parts) ==
    IF parts = <<>> THEN <<>>
    ELSE (IF Head(parts).type = "text" THEN Head(parts).content
          ELSE Opener(Head(parts).type) \o Head(parts).content
                 \o Closer(Head(parts).type))
         \o Unparse(Tail(parts))

\* s holds a whole math region: an opener, some text, the closer of its kind.
HasRegion(s) ==
    \E kind \in {"inline", "block"} : \E p \in 1..Len(s), q \in 1..Len(s) :
        HasAt(s, p, Opener(kind)) /\ q >= p + 3 /\ HasAt(s, q, Closer(kind))

\* C14: for every input string the segments of parseMathSegments, read left
\* to right, are the input: each math segment holds the text between an
\* opener and the nearest closer of its kind, inline for \( \) and block for
\* \[ \], and the text between matches is one text segment, so no text
\* segment is left holding a whole \(...\) or \[...\] region.
C14_SegmentsInOrder ==
    fn = "parseMathSegments" =>
        /\ Unparse(out) = raw
        /\ \A i \in DOMAIN out :
              /\ out[i].type \in {"text", "inline", "block"}
              /\ out[i].type = "text" =>
                    /\ ~HasRegion(out[i].content)
                    /\ i < Len(out) => out[i + 1].type # "text"
              /\ out[i].type # "text" =>
                    \A q \in 2..Len(out[i].content) :
                        ~HasAt(out[i].content, q, Closer(out[i].type))

\* s ends with the characters of raw from index p on.
EndsWithTail(s, p) ==
    /\ Len(s) >= Len(raw) - p + 1
    /\ SubSeq(s, Len(s) - (Len(raw) - p), Len(s)) = SubSeq(raw, p, Len(raw))

\* The last segment is text and holds raw from index p on.
TailIsText(p) ==
    /\ out # <<>>
    /\ out[Len(out)].type = "text"
    /\ EndsWithTail(out[Len(out)].content, p)

\* C15 as stated: an opener that no closer of its kind follows is emitted,
\* with everything after it, as literal text.
C15_DanglingToEndIsText ==
    fn = "parseMathSegments" =>
        \A kind \in {"inline", "block"} : \A p \in 1..Len(raw) :
            (/\ HasAt(raw, p, Opener(kind))
             /\ \A q \in (p + 2)..Len(raw) : ~HasAt(raw, q, Closer(kind)))
            => TailIsText(p)

\* C15 amended: a string that starts with an opener and holds no closer is
\* returned as one text segment equal to the string; in general an opener
\* that no closer of either kind follows is emitted, with everything after
\* it, as literal text at the end of the result.
C15_UnclosedTailIsText ==
    fn = "parseMathSegments" =>
        \A kind \in {"inline", "block"} : \A p \in 1..Len(raw) :
            (/\ HasAt(raw, p, Opener(kind))
             /\ \A k2 \in {"inline", "block"} : \A q \in (p + 2)..Len(raw) :
                    ~HasAt(raw, q, Closer(k2)))
            => /\ TailIsText(p)
               /\ p = 1 => out = <<[type |-> "text", content |-> raw]>>

C15_Witness ==
    /\ fn = "parseMathSegments"
    /\ raw = <<BS, "(", "a", BS, ")", BS, "[", "a">>
    /\ out = <<[type |-> "inline", content |-> <<"a">>],
               [type |-> "text", content |-> <<BS, "[", "a">>]>>

\* The characters the math delimiters are made of.
DelimiterChars == {BS, "(", ")", "[", "]"}

NoDelimiterChars(s) == \A i \in DOMAIN s : s[i] \notin DelimiterChars

\* C16 as stated: for any string without delimiter characters the result is
\* exactly one text segment whose content is the string.
C16_TextOnlyIsOnePart ==
    (fn = "parseMathSegments" /\ NoDelimiterChars(raw)) => out = <<[type |-> "text", content |-> raw]>>

\* C16 amended: for any non-empty string without delimiter characters the
\* result is exactly one text segment whose content is the string; for the
\* empty string it is the empty list.
C16_NonEmptyTextOnlyIsOnePart ==
    (fn = "parseMathSegments" /\ NoDelimiterChars(raw)) =>
        out = IF raw = <<>> THEN <<>> ELSE <<[type |-> "text", content |-> raw]>>

C16_Witness ==
    /\ fn = "parseMathSegments"
    /\ raw = <<"a", NL, "a">>
    /\ out = <<[type |-> "text", content |-> <<"a", NL, "a">>]>>

\* No child of any line has an empty content.
NoEmptyChild(lines) ==
    \A l \in DOMAIN lines : \A i \in DOMAIN lines[l] :
        lines[l][i].content # <<>>

\* C17: no part produced by parseMathSegments and no part produced by
\* renderInlineMathText (for an option, or for a text element of questionParts)
\* has an empty value, text or math.
C17_NoEmptyPart ==
    /\ fn = "parseMathSegments" => \A i \in DOMAIN out : out[i].content # <<>>
    /\ fn = "renderInlineMathText" => NoEmptyChild(out)
    /\ (fn = "renderParts" /\ out.el = "p") => NoEmptyChild(out.children)

\* s ends with the word w.
EndsWith(s, w) == HasAt(s, Len(s) - Len(w) + 1, w)

\* The trimmed value ends with .png, .jpg or .jpeg, whatever the case.
EndsWithImageExtension(part) ==
    \E w \in {Png, Jpg, Jpeg} : EndsWith(ToLowerCase(Trim(part)), w)

\* C18: an element of questionParts is rendered as an image exactly when its
\* trimmed value ends with .png, .jpg or .jpeg (case-insensitive); a part in
\* which the extension only occurs inside other text is rendered as text.
C18_ImageIffEndsWithExtension ==
    fn = "renderParts" => (out.el = "img" <=> EndsWithImageExtension(raw))

\* The elements handed to the typesetting components, in one list.
RECURSIVE Flat(_)
Flat(lines) == IF lines = <<>> THEN <<>> ELSE Head(lines) \o Flat(Tail(lines))

BraceChildren ==
    IF fn = "renderInlineMathText" THEN Flat(out)
    ELSE IF fn = "renderParts" /\ out.el = "p" THEN Flat(out.children)
    ELSE <<>>

\* MathText hands each math segment over as it stands between its delimiters.
MathTextVerbatim ==
    fn = "MathText" =>
        \A i \in DOMAIN out :
            /\ out[i].el = "InlineMath" =>
                  Includes(raw, Opener("inline") \o out[i].content
                                  \o Closer("inline"))
            /\ out[i].el = "BlockMath" =>
                  Includes(raw, Opener("block") \o out[i].content
                                  \o Closer("block"))

\* C19 as stated: in both strategies the string handed to InlineMath or
\* BlockMath is the text that stands between the delimiters in the input,
\* untrimmed and unescaped.
C19_MathHandedVerbatim ==
    /\ MathTextVerbatim
    /\ \A i \in DOMAIN BraceChildren :
          BraceChildren[i].el = "InlineMath" =>
              Includes(raw, <<"{", "{">> \o BraceChildren[i].content
                              \o <<"}", "}">>)

\* C19 amended: MathText hands the string over exactly as it stands between
\* the delimiters; renderInlineMathText hands over the text between {{ and }}
\* with the white space at its two ends removed and nothing else changed.
C19_MathVerbatimOrTrimmed ==
    /\ MathTextVerbatim
    /\ \A i \in DOMAIN BraceChildren :
          BraceChildren[i].el = "InlineMath" =>
              \E p \in 1..Len(raw), q \in 1..Len(raw) :
                  /\ HasAt(raw, p, <<"{", "{">>)
                  /\ q >= p + 2
                  /\ HasAt(raw, q, <<"}", "}">>)
                  /\ BraceChildren[i].content
                       = TrimEnd(TrimStart(SubSeq(raw, p + 2, q - 1)))

C19_Witness ==
    /\ fn = "renderInlineMathText"
    /\ raw = <<"{", "{", SP, "a", SP, "}", "}">>
    /\ out = <<<<[el |-> "text", content |-> <<>>],
                 [el |-> "InlineMath", content |-> <<"a">>],
                 [el |-> "text", content |-> <<>>]>>>>

\* "http", the absolute-URL scheme the pages know.
StartsWithScheme(token) == HasAt(token, 1, Http)

\* The one rule of the claim: unchanged after a scheme, else under the base.
ResolvedBy(token, base) == IF StartsWithScheme(token) THEN token ELSE base \o token

\* The local base paths the pages prefix: /diagrams/ and /.
LocalBases == {DiagramsBase, <<"/">>}

\* C20: a slide diagram and an image part of a question are resolved by the
\* same rule: a token that starts with an absolute-URL scheme is used as it
\* is, any other token is put under the local asset base path (whichever
\* base the place uses).
C20_OneResolutionRule ==
    /\ fn = "resolveDiagramPath" =>
           \E base \in LocalBases : out = ResolvedBy(raw, base)
    /\ (fn = "renderParts" /\ out.el = "img") =>
           \E base \in LocalBases : out.src = ResolvedBy(Trim(raw), base)

\* C21: a question level whose data is on screen has, for every question, a
\* correctAnswer that is exactly one of the options (a level that fails
\* this is rejected when loaded and never played).
C21_MalformedNeverPlayed ==
    (ChildMounted /\ ChildType = "question") =>
        \A i \in 0..(UnitsNow - 1) :
            OptionsOf(selectedLevel, i) # {} =>
                CorrectAnswer(selectedLevel, i) \in OptionsOf(selectedLevel, i)

\* The unit on screen carries options.
HasOptions == OptionsOf(selectedLevel, currentStepIndex) # {}

\* A press of Continue that is handled.
ContinueStep == continues' = continues + 1

C23_WrittenIdIsPlayedLevel ==
    [][reports' = reports + 1 =>
          \/ pending' = Issue(pending, UpdateOp(selectedLevel))
          \/ pending' = Issue(pending, GetOp(selectedLevel))]_vars

\* completedLevels of the stored user document holds the id.
Recorded(doc, l) == doc # Null /\ l \in Range(doc)

\* How many times the stored array holds the id.
Occurrences(doc, l) ==
    IF doc = Null THEN 0 ELSE Cardinality({i \in DOMAIN doc : doc[i] = l})

\* C24: a level id recorded in completedLevels stays recorded, whatever the
\* interleaving of the two bootstraps with the completion writes.
C24_RecordedStaysRecorded ==
    [][\A l \in LevelIds : Recorded(userDoc, l) => Recorded(userDoc', l)]_vars

\* C27: however often a level is completed, completedLevels holds its id at
\* most once (exactly once, once it is recorded).
C27_RecordedOnce ==
    \A l \in LevelIds : Occurrences(userDoc, l) <= 1

\* C30: a timer created by the mount effect of a FloatingButton is scheduled
\* only while that instance is mounted, and setFloating is never called for
\* an instance that was unmounted.
C30_TimersReleasedOnUnmount ==
    /\ \A t \in fbTimers : fbMounted /\ t.owner = fbInstance
    /\ lateCalls = 0

\* value === null, for a state that holds null or an object.
IsNull(v) == ToString(v) = ToString(Null)

\* A question page is mounted.
QuestionSession == ChildMounted /\ ChildType = "question"

\* C25: in a question session, a checked answer comes with a selection and a
\* feedback, and the feedback says correct exactly when the selection is the
\* correctAnswer of the question on screen.
C25_FeedbackMatchesSelection ==
    (QuestionSession /\ isAnswerChecked) =>
        /\ ~IsNull(showFeedback)
        /\ ~IsNull(selectedAnswer)
        /\ showFeedback.isCorrect =
              (selectedAnswer = CorrectAnswer(selectedLevel, currentStepIndex))

\* C26: the explanation is visible only on a checked answer.
C26_ExplanationOnlyWhenChecked ==
    showExplanation => isAnswerChecked

\* The explanation was opened with WHY? after a correct answer.
C26_Witness ==
    /\ QuestionSession
    /\ showExplanation
    /\ isAnswerChecked
    /\ showFeedback.isCorrect

\* C28: parseMathSegments loses nothing: its parts joined in order, inline
\* math back between \( and \), block math back between \[ and \], are the
\* input string.
C28_ParseIsLossless ==
    fn = "parseMathSegments" => Unparse(out) = raw

\* A string with plain text, an inline region and a block region was parsed.
C28_Witness ==
    /\ fn = "parseMathSegments"
    /\ \E i \in DOMAIN out : out[i].type = "text" /\ out[i].content # <<>>
    /\ \E i \in DOMAIN out : out[i].type = "inline"
    /\ \E i \in DOMAIN out : out[i].type = "block"

\* C29: renderParts shows a part as block math exactly when more than two
\* characters of the trimmed part are neither letters, digits, spaces nor
\* one of . , ! ?
C29_BlockWhenMostlySymbols ==
    fn = "renderParts" =>
        (out.el = "BlockMath" <=> Len(StripPlain(Trim(raw))) > 2)

====
